---- MODULE Spec2Model ----
(***************************************************************************)
(* Model of the realtime transaction tracker (the App component of        *)
(* src/server/mock-ws.js, lines 67-780): the transaction store `actives`,  *)
(* the message handler, the periodic tick (auto-remove and TPS window),    *)
(* the user operations on the store, and the WebSocket connection          *)
(* supervisor (connect / scheduleReconnect / cleanupSocket).               *)
(***************************************************************************)
EXTENDS Integers, Sequences, FiniteSets, TLC

(***************************************************************************)
(* Bounds of the model.                                                    *)
(***************************************************************************)
MaxMsgs == 3          \* payloads delivered in one behaviour
MaxHistMsgs == 202    \* payloads delivered in one behaviour of SpecHist
MaxAttempts == 6      \* cap of retryRef.current.attempts
MaxSockets == 2       \* WebSocket objects alive at the same time
MaxLinger == 11       \* cap of the "+" button of the linger control
MaxThreshold == 3     \* cap of the "+" button of the threshold control

(***************************************************************************)
(* Program constants.                                                      *)
(***************************************************************************)
MAX_HISTORY == 200
windowMs == 10000
MaxDelay == 5000
BaseDelay == 250
MsPerSecond == 1000
InitialLinger == 10

(***************************************************************************)
(* Inputs.  Date.now() is read from a clock that only takes the instants   *)
(* of TimeGrid (milliseconds since the epoch, hence positive).             *)
(***************************************************************************)
TimeGrid == {1000, 5000, 15000, 15001}
Tids == {"A", "B"}
SampleTid == "S"
WireStatus == {"INFO", "SUCCESS", "Failed"}
Urls == {"ws://a:8765", "ws://b:8765", "ws://a:x"}
RandomOffsets == {0, 999}
ViewGrid == {4000, 5500}
FilterTexts == {"", "  ", " A"}

VARIABLES
  now,              \* the clock read by Date.now()
  actives,          \* Map<string, ActiveTxn>, a function from a set of tids
  messageTimes,     \* messageTimesRef.current
  autoRemoveOnEnd,  \* state autoRemoveOnEnd
  lingerSeconds,    \* state lingerSeconds
  isPaused,         \* state isPaused
  thresholdSeconds, \* state thresholdSeconds
  filter,           \* state filter
  activeList,       \* the list held by the useMemo of lines 417-460
  depsChanged,      \* actives, thresholdSeconds or filter changed since that list
  wsUrl,            \* state wsUrl
  connected,        \* state connected
  wsRef,            \* wsRef.current: a socket slot, or 0 for null
  attempts,         \* retryRef.current.attempts
  timer,            \* retryRef.current.timer: the pending timeout, if any
  sockets,          \* the WebSocket objects: readyState per socket slot
  sent,             \* number of payloads delivered so far
  applied,          \* history variable: per tid, the events applied since creation
  firstEver,        \* history variable: per tid, the time of its first event ever
  accepted,         \* history variable: the arrival times of the events applied
  tps,              \* state tps, a quotient of two numbers
  failures,         \* history variable: failures since the last successful open
  tornDown,         \* history variable: the effect cleanup ran last
  connectRuns,      \* history variable: the parity of the number of runs of connect
  lastOp            \* history variable: the operation that ran last

storeVars == <<actives, messageTimes>>
uiVars == <<autoRemoveOnEnd, lingerSeconds, isPaused, thresholdSeconds, filter>>
memoVars == <<activeList, depsChanged>>
connVars == <<wsUrl, connected, wsRef, attempts, timer, sockets, failures, tornDown,
              connectRuns>>
vars == <<now, actives, messageTimes, autoRemoveOnEnd, lingerSeconds, isPaused,
          thresholdSeconds, filter, activeList, depsChanged,
          wsUrl, connected, wsRef, attempts, timer, sockets, sent, applied,
          firstEver, accepted, tps, failures, tornDown, connectRuns, lastOp>>

(***************************************************************************)
(* Helpers on sequences and integers.                                      *)
(***************************************************************************)
Min(a, b) == IF a < b THEN a ELSE b
Max(a, b) == IF a > b THEN a ELSE b

RECURSIVE Pow2(_)
Pow2(n) == IF n = 0 THEN 1 ELSE 2 * Pow2(n - 1)

\* Array.prototype.shift: drop the first element
Shift(s) == Tail(s)

\* Array.prototype.push
Push(s, e) == Append(s, e)

\* while (arr.length && arr[0] < cutoff) arr.shift()
RECURSIVE DropOlder(_, _)
DropOlder(arr, cutoff) ==
  IF Len(arr) > 0 /\ arr[1] < cutoff THEN DropOlder(Shift(arr), cutoff) ELSE arr

(***************************************************************************)
(* The wire format and its decoding (ws.onmessage, lines 204-213).         *)
(* A raw payload is a text; the model keeps of it whether JSON.parse       *)
(* accepts it and, if so, the value JSON.parse returns.  A WireMsg is a    *)
(* record whose optional fields may be missing; Elapsed carries the serial *)
(* number of the payload so that two events are never equal.               *)
(***************************************************************************)
JsonNull == [jsonNull |-> TRUE]

WireMsgs(n) ==
  {[Tid |-> t, Status |-> s, Elapsed |-> n] : t \in Tids \cup {""}, s \in WireStatus}
    \cup {[Tid |-> "A", Elapsed |-> n]}
    \cup {[Status |-> s, Elapsed |-> n] : s \in WireStatus}

RawPayloads(n) ==
  {[wellFormed |-> FALSE]}
    \cup {[wellFormed |-> TRUE, value |-> v] : v \in WireMsgs(n) \cup {JsonNull}}

\* JSON.parse: throws on a malformed text, otherwise returns the value
JSONparse(raw) ==
  IF raw.wellFormed THEN [threw |-> FALSE, value |-> raw.value]
  ELSE [threw |-> TRUE]

\* String.prototype.toLowerCase on the strings of the model
toLowerCase(s) ==
  CASE s = "INFO" -> "info"
    [] s = "SUCCESS" -> "success"
    [] s = "Failed" -> "failed"
    [] s = "FAILED" -> "failed"
    [] s = "ERROR" -> "error"
    [] s = "Failure" -> "failure"
    [] s = "FAILURE" -> "failure"
    [] s = "Error" -> "error"
    [] s = "DONE" -> "done"
    [] s = "SUCCEEDED" -> "succeeded"
    [] s = "A" -> "a"
    [] s = "B" -> "b"
    [] s = "S" -> "s"
    [] OTHER -> s

\* MissingTid testing obj.Tid === undefined: an empty Tid passes
MissingTidOnlyAbsent(obj) == obj = JsonNull \/ "Tid" \notin DOMAIN obj

\* !obj || !obj.Tid
MissingTid(obj) == obj = JsonNull \/ "Tid" \notin DOMAIN obj \/ obj.Tid = ""

\* (obj.Status || "").toLowerCase()
StatusOf(obj) ==
  IF "Status" \in DOMAIN obj /\ obj.Status # "" THEN toLowerCase(obj.Status) ELSE ""

\* IsTerminal knowing only the two statuses of the README (SUCCESS, FAILED)
IsTerminalTwoOnly(status) == status \in {"success", "failed"}

\* status === "success" || status === "failed" || status === "error" || status === "failure"
IsTerminal(status) == status \in {"success", "failed", "error", "failure"}

(***************************************************************************)
(* The transaction store.  An ActiveTxn is a record; endAt and finalStatus *)
(* are optional fields, missing until a terminal status is seen.           *)
(***************************************************************************)
\* Map.prototype.set
MapSet(m, k, v) == [x \in DOMAIN m \cup {k} |-> IF x = k THEN v ELSE m[x]]

\* Map.prototype.delete
MapDelete(m, k) == [x \in DOMAIN m \ {k} |-> m[x]]

EmptyMap == [x \in {} |-> x]

\* !!txn.endAt
Ended(txn) == "endAt" \in DOMAIN txn /\ txn.endAt # 0

\* the new transaction of lines 229-240
NewTxn(obj, status, t) ==
  LET txn == [tid |-> obj.Tid, firstSeenAt |-> t, lastUpdateAt |-> t,
              lastMsg |-> obj, messages |-> <<obj>>]
  IN IF IsTerminal(status)
     THEN [x \in DOMAIN txn \cup {"endAt", "finalStatus"} |->
             CASE x = "endAt" -> t
               [] x = "finalStatus" -> status
               [] OTHER -> txn[x]]
     ELSE txn

\* AppendCapped evicting with pop() instead of shift(): the newest entry goes
AppendCappedDropNewest(msgs, obj) ==
  LET pushed == Push(msgs, obj)
  IN IF Len(pushed) > MAX_HISTORY THEN SubSeq(pushed, 1, Len(pushed) - 1) ELSE pushed

\* msgs.push(obj); if (msgs.length > MAX_HISTORY) msgs.shift()
AppendCapped(msgs, obj) ==
  LET pushed == Push(msgs, obj)
  IN IF Len(pushed) > MAX_HISTORY THEN Shift(pushed) ELSE pushed

\* MarkEnded without the test of line 257: every terminal event moves endAt
MarkEndedOverwrite(txn, status, t) ==
  [x \in DOMAIN txn \cup {"endAt", "finalStatus"} |->
     CASE x = "endAt" -> t
       [] x = "finalStatus" -> status
       [] OTHER -> txn[x]]

\* MarkEnded keeping the status of the first terminal event
MarkEndedKeepFirst(txn, status, t) ==
  [x \in DOMAIN txn \cup {"endAt", "finalStatus"} |->
     CASE x = "endAt" -> IF Ended(txn) THEN txn.endAt ELSE t
       [] x = "finalStatus" -> IF Ended(txn) THEN txn.finalStatus ELSE status
       [] OTHER -> txn[x]]

\* if (!existing.endAt) existing.endAt = now; existing.finalStatus = status
MarkEnded(txn, status, t) ==
  [x \in DOMAIN txn \cup {"endAt", "finalStatus"} |->
     CASE x = "endAt" -> IF Ended(txn) THEN txn.endAt ELSE t
       [] x = "finalStatus" -> status
       [] OTHER -> txn[x]]

\* UpdateTxn that also restarts the transaction: firstSeenAt follows the event
UpdateTxnRestart(existing, obj, status, t) ==
  LET touched == [existing EXCEPT !.firstSeenAt = t, !.lastUpdateAt = t, !.lastMsg = obj,
                                  !.messages = AppendCapped(existing.messages, obj)]
  IN IF IsTerminal(status) THEN MarkEnded(touched, status, t) ELSE touched

\* the update of an existing transaction, lines 244-263
UpdateTxn(existing, obj, status, t) ==
  LET touched == [existing EXCEPT !.lastUpdateAt = t, !.lastMsg = obj,
                                  !.messages = AppendCapped(existing.messages, obj)]
  IN IF IsTerminal(status) THEN MarkEnded(touched, status, t) ELSE touched

\* the updater passed to setActives, lines 224-267
ApplyEvent(prev, obj, status, t) ==
  IF obj.Tid \notin DOMAIN prev
  THEN MapSet(prev, obj.Tid, NewTxn(obj, status, t))
  ELSE MapSet(prev, obj.Tid, UpdateTxn(prev[obj.Tid], obj, status, t))

\* arr.length / (windowMs / 1000), line 354
Tps(arr) == [num |-> Len(arr), den |-> windowMs \div MsPerSecond]

\* the TPS tracking without the trimming of lines 219-221
TrackArrivalNoTrim(arr, t) == Push(arr, t)

\* the TPS tracking of lines 216-221
TrackArrival(arr, t) == DropOlder(Push(arr, t), t - windowMs)

\* the drop condition without its test lingerSeconds >= 0
ExpiredWithAnyLinger(txn, t, enabled, linger) ==
  /\ enabled
  /\ Ended(txn)
  /\ t - txn.endAt > linger * MsPerSecond

\* the drop condition of the tick, lines 331-337, on the autoRemoveOnEnd and
\* lingerSeconds of the closure of the interval
ExpiredWith(txn, t, enabled, linger) ==
  /\ enabled
  /\ Ended(txn)
  /\ linger >= 0
  /\ t - txn.endAt > linger * MsPerSecond

\* Expired with >= for >: a transaction goes at its deadline, not after it
ExpiredAtDeadline(txn, t) ==
  /\ autoRemoveOnEnd
  /\ Ended(txn)
  /\ lingerSeconds >= 0
  /\ t - txn.endAt >= lingerSeconds * MsPerSecond

\* Expired measuring the linger from lastUpdateAt instead of endAt
ExpiredSinceLastUpdate(txn, t) ==
  /\ autoRemoveOnEnd
  /\ Ended(txn)
  /\ lingerSeconds >= 0
  /\ t - txn.lastUpdateAt > lingerSeconds * MsPerSecond

\* Expired dropping whatever took no event for longer than the linger
ExpiredIdle(txn, t) ==
  /\ autoRemoveOnEnd
  /\ lingerSeconds >= 0
  /\ t - txn.lastUpdateAt > lingerSeconds * MsPerSecond

\* the drop condition of the tick, lines 331-337
Expired(txn, t) == ExpiredWith(txn, t, autoRemoveOnEnd, lingerSeconds)

\* the updater dropping every completed transaction when auto-remove is on
SweepCompleted(prev, t) ==
  [tid \in {x \in DOMAIN prev : ~(autoRemoveOnEnd /\ Ended(prev[x]))} |-> prev[tid]]

\* the updater of the tick, lines 328-345
Sweep(prev, t) ==
  [tid \in {x \in DOMAIN prev : ~Expired(prev[x], t)} |-> prev[tid]]

\* the history variable follows the store: a log per transaction present
Restrict(log, m) == [tid \in DOMAIN m |-> log[tid]]

(***************************************************************************)
(* The projection activeList, lines 417-460.                               *)
(***************************************************************************)
\* String.prototype.trim on the filter texts of the model
trim(s) ==
  CASE s = "  " -> ""
    [] s = " A" -> "A"
    [] OTHER -> s

\* String.prototype.includes on the lower-cased fields and filter texts of the model
includes(hay, needle) ==
  \/ needle = ""
  \/ needle = hay
  \/ <<hay, needle>> \in {<<"failed", "a">>, <<"failure", "a">>}

\* the copy measuring every duration up to the time of the projection
WithDurationToNow(t, at) ==
  [f \in DOMAIN t \cup {"durationMs", "messagesShared"} |->
     CASE f = "durationMs" -> at - t.firstSeenAt
       [] f = "messagesShared" -> TRUE
       [] OTHER -> t[f]]

\* { ...t, durationMs: (t.endAt ?? now) - t.firstSeenAt }, lines 422-425; the
\* copy is shallow: messagesShared says that its messages is the array of t
WithDuration(t, at) ==
  [f \in DOMAIN t \cup {"durationMs", "messagesShared"} |->
     CASE f = "durationMs" -> (IF "endAt" \in DOMAIN t THEN t.endAt ELSE at) - t.firstSeenAt
       [] f = "messagesShared" -> TRUE
       [] OTHER -> t[f]]

\* the threshold test with > for >=
PassesThresholdStrict(t, thresholdMs) == t.durationMs > thresholdMs

\* t.durationMs >= thresholdMs, line 431
PassesThreshold(t, thresholdMs) == t.durationMs >= thresholdMs

\* fields.some((v) => v && v.toString().toLowerCase().includes(filterText)),
\* lines 435-452, on the fields that the events of the model carry
MatchesText(t, filterText) ==
  \/ t.tid # "" /\ includes(toLowerCase(t.tid), filterText)
  \/ /\ "Status" \in DOMAIN t.lastMsg
     /\ t.lastMsg.Status # ""
     /\ includes(toLowerCase(t.lastMsg.Status), filterText)

\* the comparator taking the shorter duration first
CompareAscending(a, b) == a.durationMs - b.durationMs

\* (a, b) => b.durationMs - a.durationMs, line 457
Compare(a, b) == b.durationMs - a.durationMs

\* Array.prototype.sort is stable: e goes behind every element that the
\* comparator does not put after it
RECURSIVE InsertStable(_, _)
InsertStable(sorted, e) ==
  IF sorted = <<>> THEN <<e>>
  ELSE IF Compare(Head(sorted), e) <= 0
       THEN <<Head(sorted)>> \o InsertStable(Tail(sorted), e)
       ELSE <<e>> \o sorted

RECURSIVE Sort(_)
Sort(list) ==
  IF list = <<>> THEN <<>>
  ELSE InsertStable(Sort(SubSeq(list, 1, Len(list) - 1)), list[Len(list)])

\* Array.from(actives.values()): the transactions in the insertion order of
\* the Map, which the function actives does not record: any order
Values(m) ==
  {[i \in 1..Cardinality(DOMAIN m) |-> m[order[i]]] :
     order \in {o \in [1..Cardinality(DOMAIN m) -> DOMAIN m] :
                  \A i, j \in 1..Cardinality(DOMAIN m) : i # j => o[i] # o[j]}}

\* the body of the useMemo, lines 418-459
ActiveList(values, threshold, text, at) ==
  LET thresholdMs == threshold * MsPerSecond
      filterText == toLowerCase(trim(text))
      mapped == [i \in 1..Len(values) |-> WithDuration(values[i], at)]
      byDuration == IF thresholdMs > 0
                    THEN SelectSeq(mapped, LAMBDA t : PassesThreshold(t, thresholdMs))
                    ELSE mapped
      byText == IF filterText # ""
                THEN SelectSeq(byDuration, LAMBDA t : MatchesText(t, filterText))
                ELSE byDuration
  IN Sort(byText)

\* msgs.push(obj) of lines 246-252 seen through the copies that hold the array
ShareMessages(list, tid, msgs) ==
  [i \in DOMAIN list |->
     IF list[i].tid = tid /\ list[i].messagesShared
     THEN [list[i] EXCEPT !.messages = msgs]
     ELSE list[i]]

\* a new transaction object has a new messages array, line 235: the copies of
\* an earlier transaction under the same tid hold another array
Unshare(list, tid) ==
  [i \in DOMAIN list |->
     IF list[i].tid = tid THEN [list[i] EXCEPT !.messagesShared = FALSE] ELSE list[i]]

(***************************************************************************)
(* The connection supervisor.  A socket slot holds a WebSocket object: its *)
(* readyState and the wsUrl and isPaused of the closure that created it    *)
(* (the handlers and the connect they reschedule belong to that closure).  *)
(* A slot whose socket is CLOSED and no longer referenced is free again.   *)
(***************************************************************************)
Slots == 1..MaxSockets
NoSocket == [readyState |-> "NONE", url |-> "", paused |-> FALSE]
NoTimer == [pending |-> FALSE, delay |-> 0, url |-> "", paused |-> FALSE]

\* new WebSocket(url) throws a SyntaxError on a url it cannot parse
ValidUrl(u) == u # "ws://a:x"

\* Delay computed from the attempts before the increment (attempts++ for ++attempts)
DelayBeforeIncrement(n) == Min(MaxDelay, BaseDelay * Pow2(n - 1))

\* Math.min(5000, 250 * Math.pow(2, attempts))
Delay(n) == Min(MaxDelay, BaseDelay * Pow2(n))

\* ws.close() of cleanupSocket, lines 300-311: only an open or connecting socket
CloseIfLive(socks, ref) ==
  IF ref # 0 /\ socks[ref].readyState \in {"OPEN", "CONNECTING"}
  THEN [socks EXCEPT ![ref].readyState = "CLOSING"]
  ELSE socks

FreeSlots(socks) == {s \in Slots : socks[s].readyState \in {"NONE", "CLOSED"}}

FirstFree(socks) == CHOOSE s \in FreeSlots(socks) : \A r \in FreeSlots(socks) : s <= r

\* scheduleReconnect that counts the attempt but arms no timeout
ScheduleReconnectNoTimer(url, paused) ==
  /\ attempts' = attempts + 1
  /\ timer' = NoTimer
  /\ failures' = failures + 1

\* scheduleReconnect, lines 291-296, of the closure of url and paused
ScheduleReconnect(url, paused) ==
  /\ attempts' = attempts + 1
  /\ timer' = [pending |-> TRUE, delay |-> Delay(attempts + 1), url |-> url,
               paused |-> paused]
  /\ failures' = failures + 1

\* connect, lines 191-289, of the closure of url (not empty) and paused
Connect(url, paused) ==
  LET cleaned == CloseIfLive(sockets, wsRef)
  IN /\ connectRuns' = 1 - connectRuns
     /\ IF ValidUrl(url)
        THEN /\ FreeSlots(cleaned) # {}
             /\ sockets' = [cleaned EXCEPT ![FirstFree(cleaned)] =
                                             [readyState |-> "CONNECTING", url |-> url,
                                              paused |-> paused]]
             /\ wsRef' = FirstFree(cleaned)
             /\ connected' = "connecting"
             /\ timer' = NoTimer
             /\ UNCHANGED <<attempts, failures>>
        ELSE /\ attempts < MaxAttempts
             /\ sockets' = cleaned
             /\ wsRef' = 0
             /\ connected' = "closed"
             /\ ScheduleReconnect(url, paused)

\* the effect of lines 315-320 when wsUrl changes to u: the cleanup of the
\* previous run, if any, and connect
WsUrlEffect(u) ==
  /\ ~tornDown
  /\ u # wsUrl
  /\ wsUrl' = u
  /\ Connect(u, isPaused)
  /\ lastOp' = "connect"
  /\ UNCHANGED <<memoVars, now, storeVars, uiVars, sent, applied, firstEver, accepted, tps, tornDown>>

\* the timeout set by scheduleReconnect fires: connect
TimerFire ==
  /\ timer.pending
  /\ Connect(timer.url, timer.paused)
  /\ lastOp' = "connect"
  /\ UNCHANGED <<memoVars, now, storeVars, uiVars, wsUrl, sent, applied, firstEver, accepted, tps, tornDown>>

\* ws.onopen, lines 199-202
SockOpen(s) ==
  /\ sockets[s].readyState = "CONNECTING"
  /\ sockets' = [sockets EXCEPT ![s].readyState = "OPEN"]
  /\ connected' = "open"
  /\ attempts' = 0
  /\ failures' = 0
  /\ lastOp' = "onopen"
  /\ UNCHANGED <<memoVars, connectRuns, now, storeVars, uiVars, wsUrl, wsRef, timer, sent, applied, firstEver, accepted, tps, tornDown>>

\* the connection of socket s ends (dropped, failed, or closed by close()):
\* readyState becomes CLOSED, then ws.onerror (lines 278-284, whose close()
\* does nothing on a closed socket) if it failed, then ws.onclose (273-276)
SockClosed(s, failed) ==
  /\ sockets[s].readyState \in {"CONNECTING", "OPEN", "CLOSING"}
  /\ attempts < MaxAttempts
  /\ sockets' = [sockets EXCEPT ![s].readyState = "CLOSED"]
  /\ connected' = "closed"
  /\ ScheduleReconnect(sockets[s].url, sockets[s].paused)
  /\ lastOp' = IF failed THEN "onerror" ELSE "onclose"
  /\ UNCHANGED <<memoVars, connectRuns, now, storeVars, uiVars, wsUrl, wsRef, sent, applied, firstEver, accepted, tps, tornDown>>

\* the cleanup of the effect of lines 315-320 at unmount: cleanupSocket, 298-313
Teardown ==
  /\ ~tornDown
  /\ wsUrl # ""
  /\ sockets' = CloseIfLive(sockets, wsRef)
  /\ wsRef' = 0
  /\ timer' = NoTimer
  /\ tornDown' = TRUE
  /\ lastOp' = "cleanupSocket"
  /\ UNCHANGED <<memoVars, connectRuns, now, storeVars, uiVars, wsUrl, connected, attempts, failures, sent, applied, firstEver, accepted, tps>>

(***************************************************************************)
(* Messages, the clock, the tick and the user operations on the store.     *)
(***************************************************************************)
\* ws.onmessage of socket s, lines 204-271, on the payload raw; the isPaused
\* of line 205 is the one of the closure that created the socket
OnMessage(s, raw) ==
  /\ sockets[s].readyState = "OPEN"
  /\ sent' = sent + 1
  /\ LET parsed == JSONparse(raw)
     IN IF sockets[s].paused \/ parsed.threw \/ MissingTid(parsed.value)
        THEN /\ lastOp' = "discard"
             /\ UNCHANGED <<storeVars, memoVars, applied, firstEver, accepted>>
        ELSE LET obj == parsed.value
                 status == StatusOf(obj)
             IN /\ messageTimes' = TrackArrival(messageTimes, now)
                /\ actives' = ApplyEvent(actives, obj, status, now)
                /\ applied' = IF obj.Tid \in DOMAIN actives
                              THEN [applied EXCEPT ![obj.Tid] =
                                      Append(@, [msg |-> obj, at |-> now])]
                              ELSE MapSet(applied, obj.Tid, <<[msg |-> obj, at |-> now]>>)
                /\ firstEver' = IF obj.Tid \in DOMAIN firstEver /\ firstEver[obj.Tid] = 0
                                THEN [firstEver EXCEPT ![obj.Tid] = now]
                                ELSE firstEver
                /\ activeList' = IF obj.Tid \in DOMAIN actives
                                 THEN ShareMessages(activeList, obj.Tid,
                                                    actives'[obj.Tid].messages)
                                 ELSE Unshare(activeList, obj.Tid)
                /\ depsChanged' = TRUE
                /\ accepted' = Append(accepted, now)
                /\ lastOp' = "apply"
  /\ UNCHANGED <<now, uiVars, connVars, tps>>

\* time passes
Advance(t) ==
  /\ t > now
  /\ now' = t
  /\ lastOp' = "advance"
  /\ UNCHANGED <<memoVars, storeVars, uiVars, connVars, sent, applied, firstEver, accepted, tps>>

\* the interval callback of lines 324-357
Tick ==
  /\ ~tornDown
  /\ actives' = Sweep(actives, now)
  /\ applied' = Restrict(applied, Sweep(actives, now))
  /\ messageTimes' = DropOlder(messageTimes, now - windowMs)
  /\ tps' = Tps(DropOlder(messageTimes, now - windowMs))
  /\ lastOp' = "tick"
  /\ depsChanged' = TRUE
  /\ UNCHANGED <<activeList, firstEver, accepted, now, uiVars, connVars, sent>>

\* removeTid, lines 362-371
RemoveTid(tid) ==
  /\ ~tornDown
  /\ actives' = MapDelete(actives, tid)
  /\ applied' = Restrict(applied, MapDelete(actives, tid))
  /\ lastOp' = "removeTid"
  /\ depsChanged' = TRUE
  /\ UNCHANGED <<activeList, firstEver, accepted, tps, now, messageTimes, uiVars, connVars, sent>>

\* clearAll, lines 373-376
ClearAll ==
  /\ ~tornDown
  /\ actives' = EmptyMap
  /\ applied' = EmptyMap
  /\ lastOp' = "clearAll"
  /\ depsChanged' = TRUE
  /\ UNCHANGED <<activeList, firstEver, accepted, tps, now, messageTimes, uiVars, connVars, sent>>

\* the sample event of injectSample, lines 384-400
SampleMsg == [Tid |-> SampleTid, Status |-> "INFO", Elapsed |-> 1520]

\* injectSample, lines 379-414: a transaction under a fresh random tid, first
\* seen a random time ago
InjectSample(r) ==
  /\ ~tornDown
  /\ SampleTid \notin DOMAIN actives
  /\ actives' = MapSet(actives, SampleTid,
                       [tid |-> SampleTid, firstSeenAt |-> now - r, lastUpdateAt |-> now,
                        lastMsg |-> SampleMsg, messages |-> <<SampleMsg>>])
  /\ applied' = MapSet(applied, SampleTid, <<[msg |-> SampleMsg, at |-> now]>>)
  /\ activeList' = Unshare(activeList, SampleTid)
  /\ depsChanged' = TRUE
  /\ lastOp' = "injectSample"
  /\ UNCHANGED <<firstEver, accepted, tps, now, messageTimes, uiVars, connVars, sent>>

\* the "-" button of the linger control, lines 543-550
LingerMinus ==
  /\ ~tornDown
  /\ autoRemoveOnEnd
  /\ lingerSeconds' = Max(0, lingerSeconds - 1)
  /\ lastOp' = "lingerMinus"
  /\ UNCHANGED <<memoVars, now, storeVars, autoRemoveOnEnd, isPaused, thresholdSeconds, filter, connVars, sent, applied, firstEver, accepted, tps>>

\* the "+" button of the linger control, lines 551-555
LingerPlus ==
  /\ ~tornDown
  /\ autoRemoveOnEnd
  /\ lingerSeconds < MaxLinger
  /\ lingerSeconds' = lingerSeconds + 1
  /\ lastOp' = "lingerPlus"
  /\ UNCHANGED <<memoVars, now, storeVars, autoRemoveOnEnd, isPaused, thresholdSeconds, filter, connVars, sent, applied, firstEver, accepted, tps>>

\* the toggle of the linger control, line 556
ToggleAutoRemove ==
  /\ ~tornDown
  /\ autoRemoveOnEnd' = ~autoRemoveOnEnd
  /\ lastOp' = "toggleAutoRemove"
  /\ UNCHANGED <<memoVars, now, storeVars, lingerSeconds, isPaused, thresholdSeconds, filter, connVars, sent, applied, firstEver, accepted, tps>>

\* the "-" button of the threshold control, lines 532-534; setting the same
\* value schedules no render
ThresholdMinus ==
  /\ ~tornDown
  /\ thresholdSeconds' = Max(0, thresholdSeconds - 1)
  /\ depsChanged' = (depsChanged \/ thresholdSeconds' # thresholdSeconds)
  /\ lastOp' = "thresholdMinus"
  /\ UNCHANGED <<now, storeVars, autoRemoveOnEnd, lingerSeconds, isPaused, filter,
                 activeList, connVars, sent, applied, firstEver, accepted, tps>>

\* the "+" button of the threshold control, line 535
ThresholdPlus ==
  /\ ~tornDown
  /\ thresholdSeconds < MaxThreshold
  /\ thresholdSeconds' = thresholdSeconds + 1
  /\ depsChanged' = TRUE
  /\ lastOp' = "thresholdPlus"
  /\ UNCHANGED <<now, storeVars, autoRemoveOnEnd, lingerSeconds, isPaused, filter,
                 activeList, connVars, sent, applied, firstEver, accepted, tps>>

\* onChange of the filter input, line 492
SetFilter(text) ==
  /\ ~tornDown
  /\ filter' = text
  /\ depsChanged' = (depsChanged \/ text # filter)
  /\ lastOp' = "setFilter"
  /\ UNCHANGED <<now, storeVars, autoRemoveOnEnd, lingerSeconds, isPaused,
                 thresholdSeconds, activeList, connVars, sent, applied, firstEver, accepted, tps>>

\* a render in which the useMemo of lines 417-460 recomputes activeList: one
\* of its dependencies [actives, thresholdSeconds, filter] changed
Render ==
  /\ ~tornDown
  /\ depsChanged
  /\ \E values \in Values(actives) :
       activeList' = ActiveList(values, thresholdSeconds, filter, now)
  /\ depsChanged' = FALSE
  /\ lastOp' = "render"
  /\ UNCHANGED <<now, storeVars, uiVars, connVars, sent, applied, firstEver, accepted, tps>>

\* the pause button of lines 497-502, setIsPaused((p) => !p); the button is
\* commented out in the JSX, so the program as built never runs it and Next
\* leaves it out
TogglePause ==
  /\ ~tornDown
  /\ isPaused' = ~isPaused
  /\ lastOp' = "togglePause"
  /\ UNCHANGED <<memoVars, now, storeVars, autoRemoveOnEnd, lingerSeconds,
                 thresholdSeconds, filter, connVars, sent, applied, firstEver, accepted, tps>>

(***************************************************************************)
(* Specifications.                                                         *)
(***************************************************************************)
Init ==
  /\ now = 1000
  /\ actives = EmptyMap
  /\ messageTimes = <<>>
  /\ autoRemoveOnEnd = TRUE
  /\ lingerSeconds = InitialLinger
  /\ isPaused = FALSE
  /\ thresholdSeconds = 0
  /\ filter = ""
  /\ activeList = <<>>
  /\ depsChanged = FALSE
  /\ wsUrl = ""
  /\ connected = "connecting"
  /\ wsRef = 0
  /\ attempts = 0
  /\ timer = NoTimer
  /\ sockets = [s \in Slots |-> NoSocket]
  /\ sent = 0
  /\ applied = EmptyMap
  /\ firstEver = [tid \in Tids |-> 0]
  /\ accepted = <<>>
  /\ tps = [num |-> 0, den |-> 1]
  /\ failures = 0
  /\ tornDown = FALSE
  /\ connectRuns = 0
  /\ lastOp = "init"

\* the whole program
Next ==
  \/ \E u \in Urls : WsUrlEffect(u)
  \/ TimerFire
  \/ \E s \in Slots : SockOpen(s)
  \/ \E s \in Slots, failed \in BOOLEAN : SockClosed(s, failed)
  \/ Teardown
  \/ \E s \in Slots : \E raw \in RawPayloads(sent + 1) :
       sent < MaxMsgs /\ OnMessage(s, raw)
  \/ \E t \in TimeGrid : Advance(t)
  \/ Tick
  \/ \E tid \in DOMAIN actives : RemoveTid(tid)
  \/ ClearAll
  \/ \E r \in RandomOffsets : InjectSample(r)
  \/ LingerMinus
  \/ LingerPlus
  \/ ToggleAutoRemove
  \/ ThresholdMinus
  \/ ThresholdPlus
  \/ \E text \in FilterTexts : SetFilter(text)
  \/ Render

Spec == Init /\ [][Next]_vars

\* the connection supervisor alone: no payload arrives, no time-driven work
NextConn ==
  \/ \E u \in Urls : WsUrlEffect(u)
  \/ TimerFire
  \/ \E s \in Slots : SockOpen(s)
  \/ \E s \in Slots, failed \in BOOLEAN : SockClosed(s, failed)
  \/ Teardown

SpecConn == Init /\ [][NextConn]_vars

\* the supervisor with timeouts that fire and close events that are delivered
SpecConnLive ==
  /\ Init
  /\ [][NextConn]_vars
  /\ WF_vars(TimerFire)
  /\ WF_vars(\E s \in Slots : sockets[s].readyState = "CLOSING" /\ SockClosed(s, FALSE))

\* the store on a connection that opens once and stays open, the settings
\* left as they start
NextStore ==
  \/ WsUrlEffect("ws://a:8765")
  \/ \E s \in Slots : SockOpen(s)
  \/ \E s \in Slots : \E raw \in RawPayloads(sent + 1) :
       sent < MaxMsgs /\ OnMessage(s, raw)
  \/ \E t \in TimeGrid : Advance(t)
  \/ \E tid \in DOMAIN actives : RemoveTid(tid)
  \/ ClearAll

SpecStore == Init /\ [][NextStore]_vars

\* the retention sweeper: the events of one transaction, the linger control
SweepPayloads(n) ==
  {[wellFormed |-> TRUE, value |-> [Tid |-> "A", Status |-> st, Elapsed |-> n]] :
     st \in {"INFO", "SUCCESS"}}

NextSweep ==
  \/ WsUrlEffect("ws://a:8765")
  \/ \E s \in Slots : SockOpen(s)
  \/ \E s \in Slots : \E raw \in SweepPayloads(sent + 1) :
       sent < MaxMsgs /\ OnMessage(s, raw)
  \/ \E t \in TimeGrid : Advance(t)
  \/ Tick
  \/ LingerMinus
  \/ LingerPlus
  \/ ToggleAutoRemove

SpecSweep == Init /\ [][NextSweep]_vars

\* the history cap: a long run of events of one transaction
HistPayload(n) ==
  [wellFormed |-> TRUE, value |-> [Tid |-> "A", Status |-> "INFO", Elapsed |-> n]]

NextHist ==
  \/ WsUrlEffect("ws://a:8765")
  \/ \E s \in Slots : SockOpen(s)
  \/ \E s \in Slots : sent < MaxHistMsgs /\ OnMessage(s, HistPayload(sent + 1))
  \/ \E t \in {5000} : Advance(t)

SpecHist == Init /\ [][NextHist]_vars

\* the sweeper with a tick that keeps firing and a clock that keeps running,
\* auto-remove left enabled and the linger never raised
NextLive ==
  \/ WsUrlEffect("ws://a:8765")
  \/ \E s \in Slots : SockOpen(s)
  \/ \E s \in Slots : \E raw \in SweepPayloads(sent + 1) :
       sent < MaxMsgs /\ OnMessage(s, raw)
  \/ \E t \in TimeGrid : Advance(t)
  \/ Tick
  \/ LingerMinus

SpecLive ==
  /\ Init
  /\ [][NextLive]_vars
  /\ WF_vars(Tick)
  /\ WF_vars(\E t \in TimeGrid : Advance(t))

(***************************************************************************)
(* Properties.                                                             *)
(***************************************************************************)
LastInstant == CHOOSE t \in TimeGrid : \A u \in TimeGrid : u <= t

HasEndAt(txn) == "endAt" \in DOMAIN txn

StatusIs(msg, st) == "Status" \in DOMAIN msg /\ msg.Status = st

\* C1: once a transaction has a completion timestamp, no step that keeps the
\* transaction in the store clears or changes it, whatever event arrives.
EndAtNeverMoves ==
  [][\A tid \in DOMAIN actives :
       (HasEndAt(actives[tid]) /\ tid \in DOMAIN actives')
         => (HasEndAt(actives'[tid]) /\ actives'[tid].endAt = actives[tid].endAt)]_vars

\* C1 witness: a completed transaction has taken a later event, here a
\* terminal one of another status
EndAtKeptAfterLaterEvent ==
  /\ lastOp = "apply"
  /\ "A" \in DOMAIN actives
  /\ HasEndAt(actives["A"])
  /\ actives["A"].endAt < actives["A"].lastUpdateAt
  /\ actives["A"].finalStatus = "failed"
  /\ StatusIs(applied["A"][1].msg, "SUCCESS")

\* C2 as stated: the first-seen timestamp of a transaction is the time of the
\* first event ever accepted for its identifier, sweeps in between included.
FirstSeenIsFirstEventEver ==
  \A tid \in DOMAIN actives \cap Tids : actives[tid].firstSeenAt = firstEver[tid]

\* C2 amended: the first-seen timestamp of a transaction is the time of the
\* first event applied to it since it was created, however many events
\* followed; a transaction that a sweep removed starts anew.
FirstSeenIsCreationTime ==
  \A tid \in DOMAIN actives \cap Tids : actives[tid].firstSeenAt = applied[tid][1].at

\* C2 witness: a transaction has taken a later event after its first one
FirstSeenKeptAfterLaterEvent ==
  /\ "A" \in DOMAIN actives
  /\ Len(applied["A"]) >= 2
  /\ applied["A"][Len(applied["A"])].at > applied["A"][1].at

\* C3: the history of a transaction has between 1 and 200 entries and is, in
\* arrival order, the most recent min(n, 200) of the n events applied to it.
HistoryIsRecentEvents ==
  \A tid \in DOMAIN actives :
    LET h == actives[tid].messages
        n == Len(applied[tid])
    IN /\ Len(h) >= 1
       /\ Len(h) <= 200
       /\ Len(h) = Min(n, 200)
       /\ \A i \in 1..Len(h) : h[i] = applied[tid][n - Len(h) + i].msg

\* C3 witness: a history that has overflowed
HistoryOverflowed ==
  /\ "A" \in DOMAIN actives
  /\ Len(applied["A"]) > 200
  /\ Len(actives["A"].messages) = 200

\* C4: a tick removes no transaction without completion timestamp and none
\* whose completion is at most lingerSeconds*1000 before the time of the tick.
SweepNotBeforeDeadline ==
  [][lastOp' = "tick" =>
       \A tid \in DOMAIN actives :
         (~HasEndAt(actives[tid]) \/ now - actives[tid].endAt <= lingerSeconds * 1000)
           => (tid \in DOMAIN actives' /\ actives'[tid] = actives[tid])]_vars

\* C4 witness: with lingerSeconds = 10, the transaction completed at 5000 is
\* there after the tick at 15000
KeptAtDeadline ==
  /\ lastOp = "tick"
  /\ lingerSeconds = 10
  /\ autoRemoveOnEnd
  /\ now = 15000
  /\ "A" \in DOMAIN actives
  /\ HasEndAt(actives["A"])
  /\ actives["A"].endAt = 5000

\* C5: with auto-remove enabled, a tick at a time more than lingerSeconds*1000
\* after the completion of a transaction removes it, and every completed
\* transaction whose deadline the clock can pass is eventually out of the store.
ExpiredIsEvicted ==
  /\ [][lastOp' = "tick" =>
          \A tid \in DOMAIN actives :
            (/\ autoRemoveOnEnd
             /\ lingerSeconds >= 0
             /\ HasEndAt(actives[tid])
             /\ now - actives[tid].endAt > lingerSeconds * 1000)
              => tid \notin DOMAIN actives']_vars
  /\ \A tid \in Tids :
       (/\ tid \in DOMAIN actives
        /\ HasEndAt(actives[tid])
        /\ actives[tid].endAt + lingerSeconds * 1000 < LastInstant)
         ~> (tid \notin DOMAIN actives)

\* C5 witness: a tick has evicted a transaction that had taken a further
\* event after its first one
EvictedAfterLaterEvent ==
  /\ lastOp = "tick"
  /\ firstEver["A"] # 0
  /\ "A" \notin DOMAIN actives
  /\ Len(messageTimes) >= 1
  /\ messageTimes[Len(messageTimes)] > firstEver["A"]

LiveSocket(s) == sockets[s].readyState \in {"CONNECTING", "OPEN"}

\* C6: after the teardown no reconnect is scheduled and no connection is
\* open or being opened.
NoReconnectAfterTeardown ==
  tornDown => (~timer.pending /\ \A s \in Slots : ~LiveSocket(s))

ExpectedDelay(k) ==
  CASE k = 1 -> 500
    [] k = 2 -> 1000
    [] k = 3 -> 2000
    [] k = 4 -> 4000
    [] OTHER -> 5000

\* C7: the k-th failure since the last successful open arms a timeout of
\* 500, 1000, 2000, 4000, 5000, 5000, ... ms, and no delay exceeds 5000 ms.
BackoffDelays ==
  /\ [][failures' = failures + 1 =>
          (timer'.pending /\ timer'.delay = ExpectedDelay(failures'))]_vars
  /\ [](timer.delay <= 5000)

\* C7 witness: the sixth failure in a row, delayed by the cap for the second time
SixthFailureCapped ==
  /\ lastOp \in {"onclose", "onerror"}
  /\ failures = 6
  /\ timer.pending
  /\ timer.delay = 5000

\* C9: while not torn down, a closed supervisor has a reconnect pending, and
\* from there connect runs again (its first step sets "connecting", line 194).
\* The model counts no attempt beyond MaxAttempts, so the second part is
\* stated of the states below that count.
ClosedLeadsToConnect ==
  /\ []((connected = "closed" /\ ~tornDown) => timer.pending)
  /\ \A c \in {0, 1} :
       (connected = "closed" /\ ~tornDown /\ connectRuns = c /\ attempts < MaxAttempts)
         ~> (connectRuns # c \/ tornDown)

\* C9 witness: a reconnect attempt that followed a failed one
ReconnectedAfterFailure ==
  /\ lastOp = "connect"
  /\ ~tornDown
  /\ failures >= 2
  /\ connected = "connecting"

\* a payload that does not parse, or whose Tid is absent or empty
Undecodable(raw) ==
  \/ ~raw.wellFormed
  \/ "Tid" \notin DOMAIN raw.value
  \/ raw.value.Tid = ""

\* C10: an undecodable payload changes neither the store nor the arrival
\* times of the rate tracker, and the next payload is still taken.
DiscardChangesNothing ==
  /\ [][sent' # sent =>
          \A s \in Slots : \A raw \in RawPayloads(sent + 1) :
            (Undecodable(raw) /\ OnMessage(s, raw))
              => (actives' = actives /\ messageTimes' = messageTimes)]_vars
  /\ [](lastOp = "discard" =>
          \E s \in Slots : ENABLED OnMessage(s, HistPayload(sent + 1)))

\* C10 witness: the payload after a discarded one has been applied
AppliedAfterDiscard ==
  /\ lastOp = "apply"
  /\ sent = 2
  /\ "A" \in DOMAIN actives
  /\ Len(applied["A"]) = 1
  /\ applied["A"][1].msg.Elapsed = 2
  /\ Len(messageTimes) = 1

(***************************************************************************)
(* C11: the statuses that complete a transaction.                          *)
(***************************************************************************)
\* the events of one transaction under every spelling of the status
StatusSpellings ==
  {"INFO", "SUCCESS", "success", "Failed", "ERROR", "Error", "FAILURE", "failure",
   "DONE", "SUCCEEDED", ""}

StatusPayloads(n) ==
  {[wellFormed |-> TRUE, value |-> [Tid |-> "A", Status |-> st, Elapsed |-> n]] :
     st \in StatusSpellings}
    \cup {[wellFormed |-> TRUE, value |-> [Tid |-> "A", Elapsed |-> n]]}

NextStatus ==
  \/ WsUrlEffect("ws://a:8765")
  \/ \E s \in Slots : SockOpen(s)
  \/ \E s \in Slots : \E raw \in StatusPayloads(sent + 1) :
       sent < MaxMsgs /\ OnMessage(s, raw)
  \/ \E t \in TimeGrid : Advance(t)
  \/ ClearAll

SpecStatus == Init /\ [][NextStatus]_vars

\* the lower-cased form of the statuses that are, case-insensitively, one of
\* success, failed, error, failure
TerminalWord ==
  [SUCCESS |-> "success", success |-> "success", Failed |-> "failed",
   ERROR |-> "error", Error |-> "error", FAILURE |-> "failure", failure |-> "failure"]

TerminalEvent(msg) == "Status" \in DOMAIN msg /\ msg.Status \in DOMAIN TerminalWord

\* the event applied by the step, for a transaction that took one
TookEvent(tid) ==
  /\ lastOp' = "apply"
  /\ tid \in DOMAIN actives'
  /\ actives'[tid].lastMsg.Elapsed = sent'

ViewPayloads(n) ==
  {[wellFormed |-> TRUE, value |-> [Tid |-> "A", Status |-> st, Elapsed |-> n]] :
     st \in {"INFO", "SUCCESS"}}
    \cup {[wellFormed |-> TRUE, value |-> [Tid |-> "B", Status |-> st, Elapsed |-> n]] :
            st \in {"INFO", "Failed"}}

NextView ==
  \/ WsUrlEffect("ws://a:8765")
  \/ \E s \in Slots : SockOpen(s)
  \/ \E s \in Slots : \E raw \in ViewPayloads(sent + 1) :
       sent < MaxMsgs /\ OnMessage(s, raw)
  \/ \E t \in ViewGrid : Advance(t)
  \/ sent = 0 /\ ThresholdMinus
  \/ sent = 0 /\ ThresholdPlus
  \/ \E text \in FilterTexts : sent = 0 /\ SetFilter(text)
  \/ Render

SpecView == Init /\ [][NextView]_vars

(***************************************************************************)
(* C12-C14: the projected list.                                            *)
(***************************************************************************)
\* the duration of a transaction of the store at the current time
DurationNow(txn) == (IF HasEndAt(txn) THEN txn.endAt ELSE now) - txn.firstSeenAt

\* the transactions that the text of the filter input selects
TextHits ==
  {tid \in DOMAIN actives :
     LET msg == actives[tid].lastMsg
     IN \/ filter \in {"", "  "}
        \/ filter = " A" /\ (tid = "A" \/ ("Status" \in DOMAIN msg /\ msg.Status = "Failed"))}

\* the transactions that pass the threshold and the text filter
Passing ==
  {tid \in TextHits :
     thresholdSeconds > 0 => DurationNow(actives[tid]) >= thresholdSeconds * 1000}

ListedTids == {activeList[i].tid : i \in DOMAIN activeList}

SortedPermutation ==
  /\ Len(activeList) = Cardinality(Passing)
  /\ ListedTids = Passing
  /\ \A i \in DOMAIN activeList :
       \A f \in DOMAIN actives[activeList[i].tid] :
         activeList[i][f] = actives[activeList[i].tid][f]
  /\ \A i, j \in DOMAIN activeList :
       i < j => activeList[i].durationMs >= activeList[j].durationMs

\* C12: the list computed by a render holds each transaction that passes the
\* threshold and text filters exactly once, by non-increasing duration, and
\* computing it leaves the store unchanged.
ProjectionIsSortedPermutation ==
  [][(depsChanged /\ ~depsChanged') =>
       (SortedPermutation' /\ actives' = actives /\ messageTimes' = messageTimes)]_vars

\* C12 witness: two transactions of equal duration, both listed
EqualDurationsBothListed ==
  /\ lastOp = "render"
  /\ Len(activeList) = 2
  /\ activeList[1].tid # activeList[2].tid
  /\ activeList[1].durationMs = activeList[2].durationMs
  /\ activeList[1].durationMs > 0

\* C13: with a threshold above 0 the list computed by a render holds exactly
\* the transactions (selected by the text filter) that have lasted at least
\* threshold * 1000 ms; with threshold 0 none is left out for its duration.
ThresholdKeepsLongEnough ==
  lastOp = "render" =>
    IF thresholdSeconds > 0
    THEN \A tid \in TextHits :
           tid \in ListedTids <=> DurationNow(actives[tid]) >= thresholdSeconds * 1000
    ELSE TextHits \subseteq ListedTids

\* C13 witness: threshold 3 with durations 4.5 s and 1.5 s lists the former only
ThresholdDropsShorter ==
  /\ lastOp = "render"
  /\ thresholdSeconds = 3
  /\ filter = ""
  /\ DOMAIN actives = {"A", "B"}
  /\ DurationNow(actives["A"]) = 4500
  /\ DurationNow(actives["B"]) = 1500
  /\ ListedTids = {"A"}

\* C14: in the list computed by a render a completed transaction lasts
\* completion - first-seen, as it did in the list before, and an active one
\* lasts now - first-seen.
DurationFixedOnceCompleted ==
  [][(depsChanged /\ ~depsChanged') =>
       \A i \in DOMAIN activeList' :
         LET e == activeList'[i]
         IN IF HasEndAt(e)
            THEN /\ e.durationMs = e.endAt - e.firstSeenAt
                 /\ \A j \in DOMAIN activeList :
                      (activeList[j].tid = e.tid /\ HasEndAt(activeList[j]))
                        => activeList[j].durationMs = e.durationMs
            ELSE e.durationMs = now' - e.firstSeenAt]_vars

\* C14 witness: INFO at 1000, SUCCESS at 4000 and a further event at 5500:
\* completion 4000, final status success, 3000 ms in the list of 5500
CompletedDurationKept ==
  /\ lastOp = "render"
  /\ now = 5500
  /\ "A" \in DOMAIN actives
  /\ Len(applied["A"]) = 3
  /\ StatusIs(applied["A"][1].msg, "INFO")
  /\ applied["A"][2] = [msg |-> [Tid |-> "A", Status |-> "SUCCESS", Elapsed |-> 2], at |-> 4000]
  /\ applied["A"][3].at = 5500
  /\ \E i \in DOMAIN activeList :
       /\ activeList[i].tid = "A"
       /\ activeList[i].endAt = 4000
       /\ activeList[i].finalStatus = "success"
       /\ activeList[i].durationMs = 3000

\* C15: a list obtained before an event is applied never shows afterwards a
\* mix of the transaction before and after the event: the last event of the
\* history of each entry is the last event of that entry.
HeldEntriesNeverTorn ==
  \A i \in DOMAIN activeList :
    LET e == activeList[i]
    IN e.messages[Len(e.messages)] = e.lastMsg

(***************************************************************************)
(* C16: pausing the consumer.                                              *)
(***************************************************************************)
NextPause ==
  \/ WsUrlEffect("ws://a:8765")
  \/ \E s \in Slots : SockOpen(s)
  \/ \E s \in Slots : \E raw \in SweepPayloads(sent + 1) :
       sent < MaxMsgs /\ OnMessage(s, raw)
  \/ \E t \in TimeGrid : Advance(t)
  \/ \E r \in RandomOffsets : InjectSample(r)
  \/ TogglePause

SpecPause == Init /\ [][NextPause]_vars

NegativeLingers == {0 - 1, 0 - 11}

\* C17: a tick with auto-remove disabled removes nothing and changes no
\* field of a transaction; the drop condition of a tick, taken with a negative
\* lingerSeconds, selects no transaction of the store.
DisabledSweepKeepsAll ==
  [][lastOp' = "tick" =>
       /\ ~autoRemoveOnEnd => actives' = actives
       /\ \A linger \in NegativeLingers : \A tid \in DOMAIN actives :
            ~ExpiredWith(actives[tid], now, autoRemoveOnEnd, linger)]_vars

\* C17 witness: a tick with auto-remove disabled has kept a transaction
\* completed for longer than lingerSeconds
KeptWhileDisabled ==
  /\ lastOp = "tick"
  /\ ~autoRemoveOnEnd
  /\ \E tid \in DOMAIN actives :
       /\ HasEndAt(actives[tid])
       /\ now - actives[tid].endAt > lingerSeconds * 1000

\* C18 as stated: with auto-remove enabled and lingerSeconds 0, a tick at a
\* time now >= completion, now = completion included, removes the transaction.
ZeroLingerRemovesAtCompletion ==
  [][(lastOp' = "tick" /\ autoRemoveOnEnd /\ lingerSeconds = 0) =>
       \A tid \in DOMAIN actives :
         (HasEndAt(actives[tid]) /\ now >= actives[tid].endAt)
           => tid \notin DOMAIN actives']_vars

\* C18: with auto-remove enabled and lingerSeconds 0, a tick removes the
\* completed transactions whose completion lies before now, and keeps those
\* completed at now.
ZeroLingerRemovesAfterCompletion ==
  [][(lastOp' = "tick" /\ autoRemoveOnEnd /\ lingerSeconds = 0) =>
       \A tid \in DOMAIN actives :
         HasEndAt(actives[tid]) =>
           (tid \notin DOMAIN actives' <=> now > actives[tid].endAt)]_vars

\* C18 witness: with lingerSeconds 0 the transaction first seen and completed
\* at 15000 is gone after the tick of 15001
RemovedOneMillisecondLater ==
  /\ lastOp = "tick"
  /\ autoRemoveOnEnd
  /\ lingerSeconds = 0
  /\ now = 15001
  /\ firstEver["A"] = 15000
  /\ "A" \notin DOMAIN actives

(***************************************************************************)
(* C19: the final status.                                                  *)
(***************************************************************************)
TerminalIndexes(log) == {i \in DOMAIN log : TerminalEvent(log[i].msg)}

LastTerminal(log) ==
  log[CHOOSE i \in TerminalIndexes(log) : \A j \in TerminalIndexes(log) : j <= i].msg

\* C19: after an event is applied to a transaction that has received a
\* terminal event, the final status is the lower-cased status of the last
\* terminal event applied to it; a non-terminal event applied after the
\* completion changes lastMsg, lastUpdateAt and the history, and leaves
\* finalStatus and endAt as they were.
FinalStatusIsLastTerminal ==
  [][\A tid \in Tids :
       TookEvent(tid) =>
         LET txn == actives'[tid]
             log == applied'[tid]
         IN /\ TerminalIndexes(log) # {} =>
                 /\ HasEndAt(txn)
                 /\ txn.finalStatus = TerminalWord[LastTerminal(log).Status]
            /\ (tid \in DOMAIN actives /\ HasEndAt(actives[tid]) /\ ~TerminalEvent(txn.lastMsg)) =>
                 /\ txn.finalStatus = actives[tid].finalStatus
                 /\ txn.endAt = actives[tid].endAt
                 /\ txn.lastMsg = log[Len(log)].msg
                 /\ txn.lastMsg # actives[tid].lastMsg
                 /\ txn.lastUpdateAt = now
                 /\ txn.messages = Append(actives[tid].messages, txn.lastMsg)]_vars

\* C19 witness: SUCCESS, then Failed, then INFO later on: the final status is
\* failed, the completion is the time of SUCCESS
LaterTerminalOverwrites ==
  /\ lastOp = "apply"
  /\ "A" \in DOMAIN actives
  /\ Len(applied["A"]) = 3
  /\ StatusIs(applied["A"][1].msg, "SUCCESS")
  /\ StatusIs(applied["A"][2].msg, "Failed")
  /\ StatusIs(applied["A"][3].msg, "INFO")
  /\ applied["A"][3].at > applied["A"][1].at
  /\ actives["A"].finalStatus = "failed"
  /\ actives["A"].endAt = applied["A"][1].at
  /\ actives["A"].lastUpdateAt = applied["A"][3].at

(***************************************************************************)
(* C20: the rate tracker.  Events and rejected payloads on one connection, *)
(* the tick, clearAll.                                                     *)
(***************************************************************************)
RatePayloads(n) ==
  {[wellFormed |-> FALSE],
   [wellFormed |-> TRUE, value |-> [Status |-> "INFO", Elapsed |-> n]],
   [wellFormed |-> TRUE, value |-> [Tid |-> "A", Status |-> "INFO", Elapsed |-> n]]}

NextRate ==
  \/ WsUrlEffect("ws://a:8765")
  \/ \E s \in Slots : SockOpen(s)
  \/ \E s \in Slots : \E raw \in RatePayloads(sent + 1) :
       sent < MaxMsgs /\ OnMessage(s, raw)
  \/ \E t \in TimeGrid : Advance(t)
  \/ Tick
  \/ ClearAll

SpecRate == Init /\ [][NextRate]_vars

\* the arrival times of the events applied, from the time t on
AcceptedSince(t) == SelectSeq(accepted, LAMBDA a : a >= t)

NonDecreasing(arr) == \A i, j \in DOMAIN arr : i < j => arr[i] <= arr[j]

\* C20: the rate tracker takes one timestamp per event applied and none for
\* a rejected payload, stays in non-decreasing order, and after a tick at
\* the time now (as after an event) holds exactly the arrival times from
\* now - 10000 on; the tick reports their number divided by 10.
RateWindowIsRecentArrivals ==
  [][/\ NonDecreasing(messageTimes')
     /\ sent' = sent + 1 =>
          IF lastOp' = "apply"
          THEN /\ accepted' = Append(accepted, now)
               /\ messageTimes' = AcceptedSince(now - 10000)'
          ELSE messageTimes' = messageTimes /\ accepted' = accepted
     /\ lastOp' = "tick" =>
          /\ messageTimes' = AcceptedSince(now - 10000)'
          /\ tps' = [num |-> Len(AcceptedSince(now - 10000)), den |-> 10]]_vars

\* C20 witness: events at 1000 and 5000 and one rejected payload; the tick
\* of 15000 keeps the arrival of 5000 only and reports 1 / 10
OldArrivalDropped ==
  /\ lastOp = "tick"
  /\ now = 15000
  /\ sent = 3
  /\ accepted = <<1000, 5000>>
  /\ messageTimes = <<5000>>
  /\ tps = [num |-> 1, den |-> 10]

(***************************************************************************)
(* C21: an identifier that comes back after its transaction was removed.   *)
(* The events of one transaction, the tick, removeTid and clearAll.        *)
(***************************************************************************)
NextRecreate ==
  \/ WsUrlEffect("ws://a:8765")
  \/ \E s \in Slots : SockOpen(s)
  \/ \E s \in Slots : \E raw \in SweepPayloads(sent + 1) :
       sent < MaxMsgs /\ OnMessage(s, raw)
  \/ \E t \in TimeGrid : Advance(t)
  \/ Tick
  \/ \E tid \in DOMAIN actives : RemoveTid(tid)
  \/ ClearAll

SpecRecreate == Init /\ [][NextRecreate]_vars

\* C21: the event applied to an identifier whose transaction was removed
\* creates a transaction first seen at the arrival of that event, with that
\* event as its whole history, completed only if the event is terminal; and
\* a tick removes no transaction that has no completion.
RemovedIdentifierStartsAnew ==
  [][/\ \A tid \in Tids :
          (TookEvent(tid) /\ tid \notin DOMAIN actives /\ firstEver[tid] # 0) =>
            LET txn == actives'[tid]
            IN /\ txn.firstSeenAt = now
               /\ txn.lastUpdateAt = now
               /\ txn.messages = <<txn.lastMsg>>
               /\ HasEndAt(txn) <=> TerminalEvent(txn.lastMsg)
               /\ HasEndAt(txn) => txn.endAt = now
               /\ ~HasEndAt(txn) => "finalStatus" \notin DOMAIN txn
     /\ lastOp' = "tick" =>
          \A tid \in DOMAIN actives :
            ~HasEndAt(actives[tid]) =>
              (tid \in DOMAIN actives' /\ actives'[tid] = actives[tid])]_vars

\* C21 witness: the transaction first seen at 1000 was removed, INFO at 5000
\* created it anew, and the tick of 15001, past the linger of 10 s, keeps it
RecreatedActiveOutlivesLinger ==
  /\ lastOp = "tick"
  /\ now = 15001
  /\ autoRemoveOnEnd
  /\ lingerSeconds = 10
  /\ firstEver["A"] = 1000
  /\ "A" \in DOMAIN actives
  /\ actives["A"].firstSeenAt = 5000
  /\ actives["A"].lastUpdateAt = 5000
  /\ Len(actives["A"].messages) = 1
  /\ ~HasEndAt(actives["A"])

(***************************************************************************)
(* C22: one connection at a time.                                          *)
(***************************************************************************)
AtMostOneLiveSocket == Cardinality({s \in Slots : LiveSocket(s)}) <= 1

\* a run of connect that no change of wsUrl started: the reconnect timeout
TimeoutRanConnect == connectRuns' # connectRuns /\ wsUrl' = wsUrl

====
